---- MODULE Spec2Model ----
(***************************************************************************)
(* Embedding and retrieval pipeline of mindnest:                           *)
(*   EmbeddingService   (apps/server/src/core/ai/ai-embedding.service.ts)  *)
(*   EmbeddingProcessor (ai-embedding.processor.ts)                        *)
(*   AiSearchService and AiSearchController (ai-search.*.ts)               *)
(* The ingestion side is a queue worker that rebuilds the page_embeddings  *)
(* rows of a page; the query side is one /ai/ask request that writes a     *)
(* server-sent event stream.  Every await of the code is a step boundary.  *)
(***************************************************************************)
EXTENDS Integers, Sequences, FiniteSets, TLC

(* ---------------------------------------------------------------------- *)
(* Program constants                                                       *)
(* ---------------------------------------------------------------------- *)
EMBEDDING_BATCH_SIZE == 100

TOP_K == 10

(* ---------------------------------------------------------------------- *)
(* Bounds of the model                                                     *)
(* ---------------------------------------------------------------------- *)
\* Largest number of chunks a page text splits into.
MaxChunks == 250

\* Number of queue jobs taken in one behaviour.
MaxJobs == 2

\* Number of injected failures (store or provider errors) in one behaviour.
MaxFailures == 1

\* Number of page edits made by the page editor in one behaviour.
MaxEdits == 2

\* Number of text increments the language model produces for one answer.
MaxTokens == 2

\* Number of chunks of an indexed page in the stores a query runs against.
SeedChunks == 6

(* ---------------------------------------------------------------------- *)
(* Pages, spaces, workspaces                                               *)
(* ---------------------------------------------------------------------- *)
Pages == {"p1", "p2", "p3", "p4"}

\* pages.workspaceId
PageWorkspace(p) == IF p = "p3" THEN "w2" ELSE "w1"

\* pages.spaceId
PageSpace(p) ==
  CASE p = "p1" -> "sA" [] p = "p2" -> "sB" [] p = "p3" -> "sD" [] OTHER -> "sC"

Workspaces == {"w1", "w2"}

\* The order in which SELECT ... FROM pages returns rows.
PageOrder == <<"p1", "p2", "p3", "p4">>

(* ---------------------------------------------------------------------- *)
(* Text.  A text is a sequence of units; a unit is either a whitespace run *)
(* " " or a run of characters that the splitter emits as one chunk.        *)
(* textContent is nullable.                                                *)
(* ---------------------------------------------------------------------- *)
NullText == [null |-> TRUE, s |-> <<>>]

Text(s) == [null |-> FALSE, s |-> s]

MkUnits(n, v) == [k \in 1..n |-> IF (k + v) % 2 = 0 THEN "a" ELSE "b"]

ChunkCounts == {1, EMBEDDING_BATCH_SIZE, MaxChunks}

ShortTexts ==
  {NullText, Text(<<>>), Text(<<" ">>), Text(<<" ", "a", " ", "b", " ">>)}

LongTexts == {Text(MkUnits(n, 0)) : n \in ChunkCounts}

\* The texts the editor gives the page under edit.
Texts == ShortTexts \cup {Text(<<"a">>)}

\* The page the editor rewrites; the other pages keep their text.
EditedPage == "p1"

\* pages.textContent before the first edit.
InitialText(p) ==
  CASE p = "p1" -> NullText
    [] p = "p2" -> Text(<<" ", "a", " ", "b", " ">>)
    [] p = "p3" -> Text(<<"b">>)
    [] OTHER    -> Text(<<" ">>)

SetMin(S) == CHOOSE x \in S : \A y \in S : x <= y

SetMax(S) == CHOOSE x \in S : \A y \in S : x >= y

\* String.prototype.trim
Trim(s) ==
  LET nz == {k \in 1..Len(s) : s[k] # " "}
  IN IF nz = {} THEN <<>> ELSE SubSeq(s, SetMin(nz), SetMax(nz))

\* Variant: the text is not trimmed before its length is taken.
IsBlank_NoTrim(tc) == tc.null \/ Len(tc.s) = 0

\* !page.textContent || page.textContent.trim().length === 0
IsBlank(tc) == tc.null \/ Len(tc.s) = 0 \/ Len(Trim(tc.s)) = 0

\* textSplitter.splitText: the non-whitespace units, in order.
SplitText(tc) == SelectSeq(tc.s, LAMBDA u : u # " ")

\* Array.prototype.slice(from, to) on a 1-based sequence, 0-based bounds.
Slice(s, from, to) ==
  SubSeq(s, from + 1, IF to < Len(s) THEN to ELSE Len(s))

(* ---------------------------------------------------------------------- *)
(* Configuration                                                           *)
(* ---------------------------------------------------------------------- *)
\* The values of AI_DRIVER the model is run with.
Drivers == {"gemini", "bogus"}

SupportedDrivers == {"openai", "gemini", "ollama"}

\* getEmbeddingModel: throws for a driver outside the switch.
EmbeddingModelResolves(d) == d \in SupportedDrivers

\* The vector the embedding backend returns for a chunk.
EmbedVec(chunk) == CASE chunk = "a" -> 1 [] chunk = "b" -> 2 [] OTHER -> 3

(* ---------------------------------------------------------------------- *)
(* Queue jobs                                                              *)
(* ---------------------------------------------------------------------- *)
JobNames ==
  {"WORKSPACE_CREATE_EMBEDDINGS", "WORKSPACE_DELETE_EMBEDDINGS",
   "GENERATE_PAGE_EMBEDDINGS", "DELETE_PAGE_EMBEDDINGS", "UNKNOWN"}

JobData ==
  {[pageId |-> p, workspaceId |-> PageWorkspace(p)] : p \in Pages}
    \cup {[workspaceId |-> ws] : ws \in Workspaces}

Workers == {"k1", "k2"}

\* The worker of a queue run with the default concurrency of one.
SeqWorkers == {"k1"}

VARIABLES
  store,      \* page_embeddings: sequence of rows in insertion order
  pages,      \* pages table: [Pages -> [textContent, deletedAt, present]]
  driver,     \* environmentService.getAiDriver()
  wk,         \* per worker: position and locals of the job it processes
  lastOk,     \* history: per page, text of the last complete regenerate
  budget,     \* history: jobs, failures and edits used so far
  ask         \* the /ai/ask request and its response stream

vars == <<store, pages, driver, wk, lastOk, budget, ask>>

(* ---------------------------------------------------------------------- *)
(* page_embeddings rows                                                    *)
(* ---------------------------------------------------------------------- *)
\* metadata: JSON.stringify({ text: chunk }) stored as jsonb
Metadata(chunk) == [text |-> chunk]

\* (pe.metadata #>> '{}')::jsonb->>'text'
ChunkText(row) == row.metadata.text

\* Variant: the index restarts at 0 in every batch.
ChunkIndex_InBatch(i, batchIndex) == batchIndex

\* const chunkIndex = i + batchIndex
ChunkIndex(i, batchIndex) == i + batchIndex

\* Variant: the slice ends one element early.
BatchChunks_Short(chunks, i) == Slice(chunks, i, i + EMBEDDING_BATCH_SIZE - 1)

\* chunks.slice(i, i + EMBEDDING_BATCH_SIZE)
BatchChunks(chunks, i) == Slice(chunks, i, i + EMBEDDING_BATCH_SIZE)

\* batchChunks.map((chunk, batchIndex) => row), with embeddings[batchIndex]
BatchRows(page, batchChunks, i) ==
  [k \in 1..Len(batchChunks) |->
     [pageId      |-> page.id,
      spaceId     |-> page.spaceId,
      workspaceId |-> page.workspaceId,
      chunkIndex  |-> ChunkIndex(i, k - 1),
      metadata    |-> Metadata(batchChunks[k]),
      embedding   |-> EmbedVec(batchChunks[k])]]

\* Variant: the statement removes nothing.
DeleteRowsOfPage_Nothing(st, pageId) == st

\* DELETE FROM page_embeddings WHERE page_id = pageId
DeleteRowsOfPage(st, pageId) == SelectSeq(st, LAMBDA r : r.pageId # pageId)

\* DELETE FROM page_embeddings WHERE workspace_id = workspaceId
DeleteRowsOfWorkspace(st, workspaceId) ==
  SelectSeq(st, LAMBDA r : r.workspaceId # workspaceId)

\* History: the stored row remembers the worker whose run inserted it.
Stored(row, w) ==
  [f \in DOMAIN row \cup {"by"} |-> IF f = "by" THEN w ELSE row[f]]

\* The rows of one page, in insertion order.
RowsOfPage(st, pageId) == SelectSeq(st, LAMBDA r : r.pageId = pageId)

\* The row SELECT id, spaceId, workspaceId, textContent FROM pages returns.
PageRow(p) ==
  [id          |-> p,
   spaceId     |-> PageSpace(p),
   workspaceId |-> PageWorkspace(p),
   textContent |-> pages[p].textContent]

\* WHERE deletedAt IS NULL on an existing row
PageVisible(p) == pages[p].present /\ ~pages[p].deletedAt

RECURSIVE VisiblePagesOf(_, _)
\* SELECT ... FROM pages WHERE workspaceId = ws AND deletedAt IS NULL
VisiblePagesOf(order, ws) ==
  IF order = <<>> THEN <<>>
  ELSE LET p    == Head(order)
           rest == VisiblePagesOf(Tail(order), ws)
       IN IF PageWorkspace(p) = ws /\ PageVisible(p)
          THEN <<PageRow(p)>> \o rest
          ELSE rest

(* ---------------------------------------------------------------------- *)
(* Worker state                                                            *)
(* ---------------------------------------------------------------------- *)
NoPage ==
  [id |-> "none", spaceId |-> "none", workspaceId |-> "none",
   textContent |-> NullText]

\* History of the operations one job issued.
NoOps ==
  [deletes   |-> <<>>,                 \* page ids of DELETE statements
   embeds    |-> <<>>,                 \* <<page id, batch>> of embedMany calls
   inserts   |-> [p \in Pages |-> 0],  \* INSERT statements per page
   completed |-> <<>>,                 \* pages rebuilt without error
   visited   |-> <<>>,                 \* pages the job looked at
   failed    |-> <<>>,                 \* <<page id, step>> of thrown errors
   resolves  |-> 0]                    \* calls of getEmbeddingModel

IdleWorker ==
  [pc             |-> "idle",
   jobName        |-> "none",
   arg            |-> "none",
   mode           |-> "page",
   page           |-> NoPage,
   chunks         |-> <<>>,
   i              |-> 0,
   j              |-> 0,
   rows           |-> <<>>,
   wsPages        |-> <<>>,
   idx            |-> 0,
   processedCount |-> 0,
   skippedCount   |-> 0,
   ops            |-> NoOps,
   prevRows       |-> [p \in Pages |-> <<>>],
   prevOk         |-> {},
   prevInterrupted |-> {},
   prevLeft       |-> {},
   delAt          |-> 0,
   blankRows      |-> [p \in Pages |-> <<>>],
   outcome        |-> "none"]

NoLastOk ==
  [valid |-> FALSE, interrupted |-> FALSE, left |-> FALSE,
   textContent |-> NullText, rows |-> <<>>]

\* generateEmbeddingsForPage returns normally to its caller.
Returned(r) ==
  IF r.mode = "page"
  THEN [r EXCEPT !.pc = "done", !.outcome = "ok"]
  ELSE [r EXCEPT !.pc = "wsLoop", !.processedCount = @ + 1, !.idx = @ + 1]

\* Variant: the workspace loop has no try/catch around the page.
Thrown_Propagates(r) == [r EXCEPT !.pc = "done", !.outcome = "error"]

\* generateEmbeddingsForPage throws: the workspace loop catches and logs,
\* the page handler lets the error reach the queue.
Thrown(r) ==
  IF r.mode = "page"
  THEN [r EXCEPT !.pc = "done", !.outcome = "error"]
  ELSE [r EXCEPT !.pc = "wsLoop", !.idx = @ + 1]

\* History: the regenerate of r.page throws at the given step.
Failed(r, step) == [r EXCEPT !.ops.failed = Append(@, <<r.page.id, step>>)]

\* History: a regenerate of page pid on text tc stopped after its delete;
\* rows are the rows it leaves (remembered is whether there are any).
Interrupted(lo, pid, tc, rows) ==
  [lo EXCEPT ![pid] = [valid |-> FALSE, interrupted |-> TRUE,
                       left |-> rows # <<>>,
                       textContent |-> tc, rows |-> <<>>]]

\* A text with nothing but whitespace in it (or no text at all).
HasNoText(tc) == tc.null \/ \A k \in 1..Len(tc.s) : tc.s[k] = " "

\* History: the job looks at a page; the rows of a page without text are
\* remembered.
Visit(r, page) ==
  [r EXCEPT !.ops.visited = Append(@, page.id),
            !.page = page,
            !.blankRows[page.id] =
               IF HasNoText(page.textContent)
               THEN RowsOfPage(store, page.id) ELSE @]

\* Entry of generateEmbeddingsForPage(page): the guard on the text.
CallGenerate(r, page) ==
  IF IsBlank(page.textContent)
  THEN Returned(r)
  ELSE [r EXCEPT !.pc = "delete", !.page = page,
                 !.prevOk = IF lastOk[page.id].valid
                               /\ lastOk[page.id].textContent = page.textContent
                            THEN @ \cup {page.id} ELSE @,
                 !.prevInterrupted =
                    IF lastOk[page.id].interrupted
                       /\ lastOk[page.id].textContent = page.textContent
                    THEN @ \cup {page.id} ELSE @,
                 !.prevLeft = IF lastOk[page.id].left
                              THEN @ \cup {page.id} ELSE @,
                 !.prevRows[page.id] = lastOk[page.id].rows]

Invalidate(lo, ps) == [p \in Pages |-> IF p \in ps THEN NoLastOk ELSE lo[p]]

(* ---------------------------------------------------------------------- *)
(* Initial state                                                           *)
(* ---------------------------------------------------------------------- *)
IngestInit ==
  /\ store = <<>>
  /\ pages = [p \in Pages |->
                [textContent |-> InitialText(p), deletedAt |-> FALSE,
                 present |-> TRUE]]
  /\ driver \in Drivers
  /\ wk = [w \in Workers |-> IdleWorker]
  /\ lastOk = [p \in Pages |-> NoLastOk]
  /\ budget = [jobs |-> 0, failures |-> 0, edits |-> 0]

(* ---------------------------------------------------------------------- *)
(* EmbeddingProcessor.process and its handlers                             *)
(* ---------------------------------------------------------------------- *)
\* Variant: the default case of the switch throws.
Process_UnknownThrows(w, name, data) ==
  /\ wk[w].pc = "idle"
  /\ budget.jobs < MaxJobs
  /\ budget' = [budget EXCEPT !.jobs = @ + 1]
  /\ LET r == [IdleWorker EXCEPT !.jobName = name]
     IN wk' = [wk EXCEPT ![w] =
          CASE name = "WORKSPACE_CREATE_EMBEDDINGS" ->
                 [r EXCEPT !.pc = "wsLoad", !.arg = data.workspaceId,
                           !.mode = "ws"]
            [] name = "WORKSPACE_DELETE_EMBEDDINGS" ->
                 [r EXCEPT !.pc = "delWs", !.arg = data.workspaceId]
            [] name = "GENERATE_PAGE_EMBEDDINGS" ->
                 IF "pageId" \in DOMAIN data
                 THEN [r EXCEPT !.pc = "loadPage", !.arg = data.pageId]
                 ELSE [r EXCEPT !.pc = "done", !.outcome = "ok"]
            [] name = "DELETE_PAGE_EMBEDDINGS" ->
                 IF "pageId" \in DOMAIN data
                 THEN [r EXCEPT !.pc = "delPage", !.arg = data.pageId]
                 ELSE [r EXCEPT !.pc = "done", !.outcome = "ok"]
            [] OTHER ->
                 [r EXCEPT !.pc = "done", !.outcome = "error"]]
  /\ UNCHANGED <<store, pages, driver, lastOk, ask>>

\* process(job): the switch on job.name.
Process(w, name, data) ==
  /\ wk[w].pc = "idle"
  /\ budget.jobs < MaxJobs
  /\ budget' = [budget EXCEPT !.jobs = @ + 1]
  /\ LET r == [IdleWorker EXCEPT !.jobName = name]
     IN wk' = [wk EXCEPT ![w] =
          CASE name = "WORKSPACE_CREATE_EMBEDDINGS" ->
                 [r EXCEPT !.pc = "wsLoad", !.arg = data.workspaceId,
                           !.mode = "ws"]
            [] name = "WORKSPACE_DELETE_EMBEDDINGS" ->
                 [r EXCEPT !.pc = "delWs", !.arg = data.workspaceId]
            [] name = "GENERATE_PAGE_EMBEDDINGS" ->
                 IF "pageId" \in DOMAIN data
                 THEN [r EXCEPT !.pc = "loadPage", !.arg = data.pageId]
                 ELSE [r EXCEPT !.pc = "done", !.outcome = "ok"]
            [] name = "DELETE_PAGE_EMBEDDINGS" ->
                 IF "pageId" \in DOMAIN data
                 THEN [r EXCEPT !.pc = "delPage", !.arg = data.pageId]
                 ELSE [r EXCEPT !.pc = "done", !.outcome = "ok"]
            [] OTHER ->
                 [r EXCEPT !.pc = "done", !.outcome = "ok"]]
  /\ UNCHANGED <<store, pages, driver, lastOk, ask>>

\* handleGeneratePageEmbeddings: load the page, then generateEmbeddingsForPage
\* up to its first await.
HandleGeneratePageEmbeddings(w) ==
  /\ wk[w].pc = "loadPage"
  /\ LET r   == wk[w]
         pid == r.arg
         nr  == IF ~PageVisible(pid)
                THEN [r EXCEPT !.pc = "done", !.outcome = "ok"]
                ELSE CallGenerate(Visit(r, PageRow(pid)), PageRow(pid))
     IN /\ wk' = [wk EXCEPT ![w] = nr]
        /\ lastOk' = IF nr.pc = "delete" THEN Invalidate(lastOk, {pid})
                     ELSE lastOk
  /\ UNCHANGED <<store, pages, driver, budget, ask>>

\* Variant: the embedding model is resolved before the existing rows are
\* deleted, so an unsupported driver throws with the rows still in place.
DeleteExisting_ResolveFirst(w) ==
  /\ wk[w].pc = "delete"
  /\ LET r      == wk[w]
         pid    == r.page.id
         r1     == [r EXCEPT !.ops.deletes = Append(@, pid)]
         chunks == SplitText(r.page.textContent)
     IN IF ~EmbeddingModelResolves(driver)
        THEN /\ store' = store
             /\ wk' = [wk EXCEPT ![w] =
                  Thrown(Failed([r EXCEPT !.ops.resolves = @ + 1], "resolve"))]
             /\ lastOk' = lastOk
        ELSE /\ store' = DeleteRowsOfPage(store, pid)
             /\ wk' = [wk EXCEPT ![w] =
                  IF Len(chunks) = 0
                  THEN Returned([r1 EXCEPT !.ops.completed = Append(@, pid)])
                  ELSE [r1 EXCEPT !.pc = "embed", !.chunks = chunks, !.i = 0,
                                  !.ops.resolves = @ + 1]]
             /\ lastOk' = lastOk
  /\ UNCHANGED <<pages, driver, budget, ask>>

\* generateEmbeddingsForPage: deleteEmbeddingsForPage, splitText, and the
\* resolution of the embedding model.
DeleteExisting(w) ==
  /\ wk[w].pc = "delete"
  /\ LET r      == wk[w]
         pid    == r.page.id
         r1     == [r EXCEPT !.ops.deletes = Append(@, pid)]
         chunks == SplitText(r.page.textContent)
     IN /\ store' = DeleteRowsOfPage(store, pid)
        /\ wk' = [wk EXCEPT ![w] =
             IF Len(chunks) = 0
             THEN Returned([r1 EXCEPT !.ops.completed = Append(@, pid)])
             ELSE IF ~EmbeddingModelResolves(driver)
             THEN Thrown(Failed([r1 EXCEPT !.ops.resolves = @ + 1], "resolve"))
             ELSE [r1 EXCEPT !.pc = "embed", !.chunks = chunks, !.i = 0,
                             !.ops.resolves = @ + 1]]
        /\ lastOk' = IF Len(chunks) # 0 /\ ~EmbeddingModelResolves(driver)
                     THEN Interrupted(lastOk, pid, r.page.textContent, <<>>)
                     ELSE lastOk
  /\ UNCHANGED <<pages, driver, budget, ask>>

\* One iteration head of the batch loop: slice, embedMany, build the rows.
EmbedBatch(w) ==
  /\ wk[w].pc = "embed"
  /\ LET r           == wk[w]
         batchChunks == BatchChunks(r.chunks, r.i)
     IN wk' = [wk EXCEPT ![w] =
          [r EXCEPT !.pc = "insert",
                    !.rows = BatchRows(r.page, batchChunks, r.i),
                    !.j = 0,
                    !.ops.embeds = Append(@, <<r.page.id, batchChunks>>)]]
  /\ UNCHANGED <<store, pages, driver, lastOk, budget, ask>>

\* One INSERT of the inner loop; after the last row of the last batch the
\* function returns.
InsertRow(w) ==
  /\ wk[w].pc = "insert"
  /\ LET r   == wk[w]
         pid == r.page.id
         row == r.rows[r.j + 1]
         r1  == [r EXCEPT !.j = @ + 1, !.ops.inserts[pid] = @ + 1]
         ni  == r.i + EMBEDDING_BATCH_SIZE
         st  == Append(store, Stored(row, w))
         fin == r1.j >= Len(r.rows) /\ ni >= Len(r.chunks)
     IN /\ store' = st
        /\ wk' = [wk EXCEPT ![w] =
             IF r1.j < Len(r.rows) THEN r1
             ELSE IF ni < Len(r.chunks)
             THEN [r1 EXCEPT !.pc = "embed", !.i = ni]
             ELSE Returned([r1 EXCEPT !.ops.completed = Append(@, pid),
                                      !.chunks = <<>>, !.rows = <<>>])]
        /\ lastOk' = IF fin
                     THEN [lastOk EXCEPT ![pid] =
                            [valid |-> TRUE, interrupted |-> FALSE,
                             left |-> FALSE,
                             textContent |-> r.page.textContent,
                             rows |-> RowsOfPage(st, pid)]]
                     ELSE lastOk
  /\ UNCHANGED <<pages, driver, budget, ask>>

\* generateEmbeddingsForWorkspace: the SELECT of the workspace's pages.
WsLoadPages(w) ==
  /\ wk[w].pc = "wsLoad"
  /\ wk' = [wk EXCEPT ![w] =
       [@ EXCEPT !.pc = "wsLoop",
                 !.wsPages = VisiblePagesOf(PageOrder, wk[w].arg),
                 !.idx = 1]]
  /\ UNCHANGED <<store, pages, driver, lastOk, budget, ask>>

\* One iteration head of `for (const page of pages)`.
WsLoop(w) ==
  /\ wk[w].pc = "wsLoop"
  /\ LET r  == wk[w]
         nr == IF r.idx > Len(r.wsPages)
               THEN [r EXCEPT !.pc = "done", !.outcome = "ok"]
               ELSE LET page == r.wsPages[r.idx]
                    IN IF IsBlank(page.textContent)
                       THEN [Visit(r, page) EXCEPT !.skippedCount = @ + 1,
                                                   !.idx = @ + 1]
                       ELSE CallGenerate(Visit(r, page), page)
     IN /\ wk' = [wk EXCEPT ![w] = nr]
        /\ lastOk' = IF nr.pc = "delete"
                     THEN Invalidate(lastOk, {nr.page.id})
                     ELSE lastOk
  /\ UNCHANGED <<store, pages, driver, budget, ask>>

\* handleDeletePageEmbeddings -> deleteEmbeddingsForPage
HandleDeletePageEmbeddings(w) ==
  /\ wk[w].pc = "delPage"
  /\ store' = DeleteRowsOfPage(store, wk[w].arg)
  /\ wk' = [wk EXCEPT ![w] =
       [@ EXCEPT !.pc = "done", !.outcome = "ok",
                 !.delAt = budget.jobs,
                 !.ops.deletes = Append(@, wk[w].arg)]]
  /\ lastOk' = Invalidate(lastOk, {wk[w].arg})
  /\ UNCHANGED <<pages, driver, budget, ask>>

\* handleWorkspaceDeleteEmbeddings -> deleteEmbeddingsForWorkspace
HandleWorkspaceDeleteEmbeddings(w) ==
  /\ wk[w].pc = "delWs"
  /\ store' = DeleteRowsOfWorkspace(store, wk[w].arg)
  /\ wk' = [wk EXCEPT ![w] = [@ EXCEPT !.pc = "done", !.outcome = "ok"]]
  /\ lastOk' = Invalidate(lastOk, {p \in Pages : PageWorkspace(p) = wk[w].arg})
  /\ UNCHANGED <<pages, driver, budget, ask>>

\* An awaited call (a store statement or embedMany) rejects.  Inside
\* generateEmbeddingsForPage the error goes to the caller of that function;
\* elsewhere it fails the job.
AwaitFails(w) ==
  /\ wk[w].pc \in {"loadPage", "delete", "embed", "insert",
                   "wsLoad", "delPage", "delWs"}
  /\ budget.failures < MaxFailures
  /\ budget' = [budget EXCEPT !.failures = @ + 1]
  /\ wk' = [wk EXCEPT ![w] =
       IF wk[w].pc \in {"delete", "embed", "insert"}
       THEN Thrown(Failed([@ EXCEPT !.chunks = <<>>, !.rows = <<>>], wk[w].pc))
       ELSE [@ EXCEPT !.pc = "done", !.outcome = "error"]]
  /\ lastOk' = IF wk[w].pc \in {"embed", "insert"}
               THEN Interrupted(lastOk, wk[w].page.id, wk[w].page.textContent,
                                RowsOfPage(store, wk[w].page.id))
               ELSE lastOk
  /\ UNCHANGED <<store, pages, driver, ask>>

\* The job is settled (completed or failed); the worker takes the next one.
JobSettled(w) ==
  /\ wk[w].pc = "done"
  /\ wk' = [wk EXCEPT ![w] = IdleWorker]
  /\ UNCHANGED <<store, pages, driver, lastOk, budget, ask>>

(* ---------------------------------------------------------------------- *)
(* The page editor (outside the pipeline)                                  *)
(* ---------------------------------------------------------------------- *)
\* A job reads the pages table in its first step only, so an edit made while
\* a job runs is the same edit made right after that step: the editor acts
\* when a job is about to read, or when no job runs.
EditorMayAct ==
  \/ \E w \in Workers : wk[w].pc \in {"loadPage", "wsLoad"}
  \/ \A w \in Workers : wk[w].pc = "idle"

\* A page's textContent is rewritten.
EditPage(p, t) ==
  /\ budget.edits < MaxEdits
  /\ EditorMayAct
  /\ PageVisible(p)
  /\ pages[p].textContent # t
  /\ pages' = [pages EXCEPT ![p].textContent = t]
  /\ budget' = [budget EXCEPT !.edits = @ + 1]
  /\ UNCHANGED <<store, driver, wk, lastOk, ask>>

\* A page is moved to the trash (deletedAt is set).
TrashPage(p) ==
  /\ budget.edits < MaxEdits
  /\ EditorMayAct
  /\ PageVisible(p)
  /\ pages' = [pages EXCEPT ![p].deletedAt = TRUE]
  /\ budget' = [budget EXCEPT !.edits = @ + 1]
  /\ UNCHANGED <<store, driver, wk, lastOk, ask>>

\* The queue worker runs with the default concurrency of one job at a time.
OthersIdle(w) == \A o \in Workers \ {w} : wk[o].pc = "idle"

IngestNext ==
  \/ \E w \in SeqWorkers, name \in JobNames, data \in JobData :
       OthersIdle(w) /\ Process(w, name, data)
  \/ \E w \in SeqWorkers : HandleGeneratePageEmbeddings(w)
  \/ \E w \in SeqWorkers : DeleteExisting(w)
  \/ \E w \in SeqWorkers : EmbedBatch(w)
  \/ \E w \in SeqWorkers : InsertRow(w)
  \/ \E w \in SeqWorkers : WsLoadPages(w)
  \/ \E w \in SeqWorkers : WsLoop(w)
  \/ \E w \in SeqWorkers : HandleDeletePageEmbeddings(w)
  \/ \E w \in SeqWorkers : HandleWorkspaceDeleteEmbeddings(w)
  \/ \E w \in SeqWorkers : AwaitFails(w)
  \/ \E w \in SeqWorkers : JobSettled(w)
  \/ \E t \in Texts : EditPage(EditedPage, t)
  \/ \E p \in Pages : TrashPage(p)

NoAsk == [pc |-> "off"]

Init == IngestInit /\ ask = NoAsk

Next == IngestNext

Spec == Init /\ [][Next]_vars

(* ---------------------------------------------------------------------- *)
(* The same worker on a page whose text spans several embedding batches:   *)
(* regenerate jobs for p1 and for its workspace, failures, and edits among *)
(* the long texts.                                                         *)
(* ---------------------------------------------------------------------- *)
BatchJobNames == {"GENERATE_PAGE_EMBEDDINGS", "WORKSPACE_CREATE_EMBEDDINGS"}

BatchInit ==
  /\ IngestInit
  /\ ask = NoAsk

BatchNext ==
  \/ \E w \in SeqWorkers, name \in BatchJobNames :
       /\ OthersIdle(w)
       /\ Process(w, name, [pageId |-> EditedPage,
                            workspaceId |-> PageWorkspace(EditedPage)])
  \/ \E w \in SeqWorkers : HandleGeneratePageEmbeddings(w)
  \/ \E w \in SeqWorkers : DeleteExisting(w)
  \/ \E w \in SeqWorkers : EmbedBatch(w)
  \/ \E w \in SeqWorkers : InsertRow(w)
  \/ \E w \in SeqWorkers : WsLoadPages(w)
  \/ \E w \in SeqWorkers : WsLoop(w)
  \/ \E w \in SeqWorkers : AwaitFails(w)
  \/ \E w \in SeqWorkers : JobSettled(w)
  \/ \E t \in LongTexts : EditPage(EditedPage, t)

BatchSpec == BatchInit /\ [][BatchNext]_vars

(* ---------------------------------------------------------------------- *)
(* Two workers on the same queue (two server processes, or the replay of a *)
(* stalled job): their jobs on one page and its workspace interleave at    *)
(* every await.                                                            *)
(* ---------------------------------------------------------------------- *)
ConcJobNames ==
  {"GENERATE_PAGE_EMBEDDINGS", "WORKSPACE_CREATE_EMBEDDINGS",
   "DELETE_PAGE_EMBEDDINGS"}

\* The page the interleaved jobs are about.
ConcPage == "p2"

ConcInit ==
  /\ IngestInit
  /\ ask = NoAsk

ConcNext ==
  \/ \E w \in Workers, name \in ConcJobNames :
       Process(w, name, [pageId |-> ConcPage,
                         workspaceId |-> PageWorkspace(ConcPage)])
  \/ \E w \in Workers : HandleGeneratePageEmbeddings(w)
  \/ \E w \in Workers : DeleteExisting(w)
  \/ \E w \in Workers : EmbedBatch(w)
  \/ \E w \in Workers : InsertRow(w)
  \/ \E w \in Workers : WsLoadPages(w)
  \/ \E w \in Workers : WsLoop(w)
  \/ \E w \in Workers : HandleDeletePageEmbeddings(w)
  \/ \E w \in Workers : AwaitFails(w)
  \/ \E w \in Workers : JobSettled(w)

ConcSpec == ConcInit /\ [][ConcNext]_vars

(* ---------------------------------------------------------------------- *)
(* The sequential worker across restarts of the server with another value  *)
(* of AI_DRIVER: pages indexed under one configuration are regenerated     *)
(* under another.                                                          *)
(* ---------------------------------------------------------------------- *)
\* The server is restarted with AI_DRIVER = d; no job is being processed.
Reconfigure(d) ==
  /\ \A w \in Workers : wk[w].pc = "idle"
  /\ driver # d
  /\ driver' = d
  /\ UNCHANGED <<store, pages, wk, lastOk, budget, ask>>

ReconfInit == Init

ReconfNext ==
  \/ IngestNext
  \/ \E d \in Drivers : Reconfigure(d)

ReconfSpec == ReconfInit /\ [][ReconfNext]_vars

(* ---------------------------------------------------------------------- *)
(* AiSearchService: retrieval                                              *)
(* ---------------------------------------------------------------------- *)
\* A string that may hold commas is a sequence of tokens: identifiers and
\* the comma.  The identifiers that are well-formed uuids:
Uuids == {"sA", "sB", "sC", "sD"}

Users == {"u1", "u2", "u3", "u4"}

\* space_members: the spaces getUserSpaceIdsQuery(userId) returns, in order.
\* The query is by user id alone; u4 is also a member of a space of w2.
UserSpaceIds(u) ==
  CASE u = "u1" -> <<<<"sA">>, <<"sB">>>>
    [] u = "u2" -> <<<<"sA">>>>
    [] u = "u3" -> <<>>
    [] OTHER    -> <<<<"sB">>, <<"sD">>>>

RECURSIVE Join(_)
\* Array.prototype.join(',')
Join(strs) ==
  IF strs = <<>> THEN <<>>
  ELSE IF Len(strs) = 1 THEN strs[1]
  ELSE strs[1] \o <<",">> \o Join(Tail(strs))

\* `{${accessibleSpaceIds.join(',')}}`
PgArrayLiteral(ids) == <<"{">> \o Join(ids) \o <<"}">>

RECURSIVE SplitOnComma(_, _)
\* The elements of the text between the braces, split at the commas.
SplitOnComma(toks, cur) ==
  IF toks = <<>> THEN <<cur>>
  ELSE IF Head(toks) = ","
       THEN <<cur>> \o SplitOnComma(Tail(toks), <<>>)
       ELSE SplitOnComma(Tail(toks), Append(cur, Head(toks)))

\* The elements of ${pgArrayLiteral}::uuid[]
ArrayElements(lit) ==
  IF Len(lit) = 2 THEN <<>>
  ELSE SplitOnComma(SubSeq(lit, 2, Len(lit) - 1), <<>>)

\* The cast to uuid[] succeeds when every element is one well-formed uuid.
CastSucceeds(lit) ==
  \A k \in 1..Len(ArrayElements(lit)) :
     LET e == ArrayElements(lit)[k] IN Len(e) = 1 /\ e[1] \in Uuids

\* pe.space_id = ANY(${pgArrayLiteral}::uuid[])
SpaceMatches(row, lit) ==
  \E k \in 1..Len(ArrayElements(lit)) : ArrayElements(lit)[k] = <<row.spaceId>>

\* pe.embedding <=> vector: the distance of two vectors.
Distance(e, q) == IF e >= q THEN e - q ELSE q - e

\* Variant: the filter on the workspace is missing.
Matching_AnyWorkspace(st, workspaceId, lit) ==
  {k \in 1..Len(st) : SpaceMatches(st[k], lit)}

\* Variant: the filter on the space is missing.
Matching_AnySpace(st, workspaceId, lit) ==
  {k \in 1..Len(st) : st[k].workspaceId = workspaceId}

\* WHERE pe.workspace_id = workspaceId AND pe.space_id = ANY(...)
Matching(st, workspaceId, lit) ==
  {k \in 1..Len(st) :
     st[k].workspaceId = workspaceId /\ SpaceMatches(st[k], lit)}

\* The SELECT list of the nearest-neighbour query.
SearchChunkResult(row, q) ==
  [pageId     |-> row.pageId,
   spaceId    |-> row.spaceId,
   chunkIndex |-> row.chunkIndex,
   chunkText  |-> ChunkText(row),
   distance   |-> Distance(row.embedding, q)]

RECURSIVE Nearest(_, _, _, _)
\* ORDER BY pe.embedding <=> vector LIMIT k; rows at the same distance come
\* in insertion order.
Nearest(st, idxs, q, k) ==
  IF k = 0 \/ idxs = {} THEN <<>>
  ELSE LET m == CHOOSE a \in idxs : \A b \in idxs :
                  \/ Distance(st[a].embedding, q) < Distance(st[b].embedding, q)
                  \/ /\ Distance(st[a].embedding, q) = Distance(st[b].embedding, q)
                     /\ a <= b
       IN <<SearchChunkResult(st[m], q)>> \o Nearest(st, idxs \ {m}, q, k - 1)

\* The rows the nearest-neighbour statement returns.
NearestNeighbors(st, q, workspaceId, lit) ==
  Nearest(st, Matching(st, workspaceId, lit), q, TOP_K)

\* Variant: the explicit space is ignored and the resolver always asked.
SpaceIdGiven_Never(sp) == FALSE

\* if (spaceId): undefined and the empty string are falsy.
SpaceIdGiven(sp) == sp.given /\ Len(sp.s) > 0

\* Variant: the citations come out in the opposite order.
BuildSources_Reversed(chunks) ==
  LET kept == SelectSeq(chunks, LAMBDA c : pages[c.pageId].present)
  IN [k \in 1..Len(kept) |->
        [pageId     |-> kept[Len(kept) + 1 - k].pageId,
         similarity |-> 1 - kept[Len(kept) + 1 - k].distance,
         distance   |-> kept[Len(kept) + 1 - k].distance,
         chunkIndex |-> kept[Len(kept) + 1 - k].chunkIndex,
         excerpt    |-> kept[Len(kept) + 1 - k].chunkText]]

\* chunks.map(...).filter(s => s !== null) of buildSources: a chunk whose
\* page row is not returned by the pages query is dropped.
BuildSources(chunks) ==
  LET kept == SelectSeq(chunks, LAMBDA c : pages[c.pageId].present)
  IN [k \in 1..Len(kept) |->
        [pageId     |-> kept[k].pageId,
         similarity |-> 1 - kept[k].distance,
         distance   |-> kept[k].distance,
         chunkIndex |-> kept[k].chunkIndex,
         excerpt    |-> kept[k].chunkText]]

\* The numbered context entries of buildSystemPrompt.
BuildSystemPrompt(chunks) ==
  [k \in 1..Len(chunks) |-> <<k, chunks[k].chunkText>>]

(* ---------------------------------------------------------------------- *)
(* Server-sent events                                                      *)
(* ---------------------------------------------------------------------- *)
ContentEvent(t) == [type |-> "content", content |-> t, sources |-> <<>>]

SourcesEvent(src) == [type |-> "sources", content |-> "", sources |-> src]

DoneMarker == [type |-> "done", content |-> "", sources |-> <<>>]

ErrorEvent(m) == [type |-> "error", content |-> m, sources |-> <<>>]

NoContentText == "No relevant content found in your workspace for this query."

(* ---------------------------------------------------------------------- *)
(* AiSearchController.ask and AiSearchService.askQuestion                  *)
(* ---------------------------------------------------------------------- *)
\* Variant: the event is put in front of what was written before.
Write_Prepend(out, ev) == <<ev>> \o out

\* res.raw.write(chunk)
Write(out, ev) == Append(out, ev)

\* Variant: the check for an empty set of spaces is missing.
NoAccessibleSpace_Never(ids) == FALSE

\* accessibleSpaceIds.length === 0
NoAccessibleSpace(ids) == Len(ids) = 0

\* Variant: the empty result is not told apart.
NoChunks_Never(chunks) == FALSE

\* chunks.length === 0
NoChunks(chunks) == Len(chunks) = 0

\* getLanguageModel: throws for a driver outside the switch.
LanguageModelResolves(d) == d \in SupportedDrivers

\* Variant: the error is reported and the stream is read on.
Caught_Resume(a, m) ==
  [a EXCEPT !.failed = TRUE, !.out = Write(@, ErrorEvent(m)),
            !.pc = IF a.pc = "stream" THEN "stream" ELSE "caught"]

\* The catch block of ask: one error event is written.
Caught(a, m) ==
  [a EXCEPT !.pc = "caught", !.failed = TRUE, !.out = Write(@, ErrorEvent(m))]

NewAsk(q, ws, u, sp) ==
  [pc            |-> "embed",
   query         |-> q,
   workspaceId   |-> ws,
   userId        |-> u,
   spaceId       |-> sp,
   queryVector   |-> 0,
   accessible    |-> <<>>,
   chunks        |-> <<>>,
   retrieved     |-> FALSE,
   prompt        |-> <<>>,
   produced      |-> <<>>,
   out           |-> <<>>,
   ended         |-> FALSE,
   failed        |-> FALSE,
   resolverCalls |-> 0,
   storeQueries  |-> 0,
   llmCalls      |-> 0]

\* askQuestion step 1: getEmbeddingModel and embed(query).
AskEmbedQuery ==
  /\ ask.pc = "embed"
  /\ ask' = IF ~EmbeddingModelResolves(driver)
            THEN Caught(ask, "Unsupported AI driver")
            ELSE [ask EXCEPT !.pc = "scope", !.queryVector = EmbedVec(ask.query)]
  /\ UNCHANGED <<store, pages, driver, wk, lastOk, budget>>

\* findSimilarChunks: the set of space ids, and the return of [] when it is
\* empty.
AskResolveScope ==
  /\ ask.pc = "scope"
  /\ LET ids == IF SpaceIdGiven(ask.spaceId) THEN <<ask.spaceId.s>>
                ELSE UserSpaceIds(ask.userId)
         a1  == [ask EXCEPT !.accessible = ids,
                            !.resolverCalls =
                               IF SpaceIdGiven(ask.spaceId) THEN @ ELSE @ + 1]
     IN ask' = IF NoAccessibleSpace(ids)
               THEN [a1 EXCEPT !.chunks = <<>>, !.retrieved = TRUE,
                               !.pc = IF NoChunks(<<>>) THEN "noContent"
                                      ELSE "stream"]
               ELSE [a1 EXCEPT !.pc = "query"]
  /\ UNCHANGED <<store, pages, driver, wk, lastOk, budget>>

\* findSimilarChunks: the nearest-neighbour statement; then askQuestion up to
\* its first yield (the empty check, buildSystemPrompt, getLanguageModel,
\* streamText).
AskQueryStore ==
  /\ ask.pc = "query"
  /\ LET lit    == PgArrayLiteral(ask.accessible)
         a1     == [ask EXCEPT !.storeQueries = @ + 1]
         chunks == NearestNeighbors(store, ask.queryVector,
                                    ask.workspaceId, lit)
         a2     == [a1 EXCEPT !.chunks = chunks, !.retrieved = TRUE]
     IN ask' = IF ~CastSucceeds(lit)
               THEN Caught(a1, "invalid input syntax for type uuid")
               ELSE IF NoChunks(chunks)
               THEN [a2 EXCEPT !.pc = "noContent"]
               ELSE IF ~LanguageModelResolves(driver)
               THEN Caught(a2, "Unsupported AI driver")
               ELSE [a2 EXCEPT !.pc = "stream",
                               !.prompt = BuildSystemPrompt(chunks),
                               !.llmCalls = @ + 1]
  /\ UNCHANGED <<store, pages, driver, wk, lastOk, budget>>

\* yield of the 'no relevant content' event
AskYieldNoContent ==
  /\ ask.pc = "noContent"
  /\ ask' = [ask EXCEPT !.pc = "noSources",
                        !.out = Write(@, ContentEvent(NoContentText))]
  /\ UNCHANGED <<store, pages, driver, wk, lastOk, budget>>

\* yield of the empty sources event
AskYieldNoSources ==
  /\ ask.pc = "noSources"
  /\ ask' = [ask EXCEPT !.pc = "yieldDone",
                        !.out = Write(@, SourcesEvent(<<>>))]
  /\ UNCHANGED <<store, pages, driver, wk, lastOk, budget>>

\* for await (const textPart of result.textStream): the model produces one
\* increment and it is yielded.
AskTextPart(t) ==
  /\ ask.pc = "stream"
  /\ Len(ask.produced) < MaxTokens
  /\ ask' = [ask EXCEPT !.produced = Append(@, t),
                        !.out = Write(@, ContentEvent(t))]
  /\ UNCHANGED <<store, pages, driver, wk, lastOk, budget>>

\* The text stream is exhausted.
AskStreamEnds ==
  /\ ask.pc = "stream"
  /\ ask' = [ask EXCEPT !.pc = "sources"]
  /\ UNCHANGED <<store, pages, driver, wk, lastOk, budget>>

\* buildSources and the yield of the sources event
AskYieldSources ==
  /\ ask.pc = "sources"
  /\ ask' = [ask EXCEPT !.pc = "yieldDone",
                        !.out = Write(@, SourcesEvent(BuildSources(ask.chunks)))]
  /\ UNCHANGED <<store, pages, driver, wk, lastOk, budget>>

\* yield 'data: [DONE]'
AskYieldDone ==
  /\ ask.pc = "yieldDone"
  /\ ask' = [ask EXCEPT !.pc = "returned", !.out = Write(@, DoneMarker)]
  /\ UNCHANGED <<store, pages, driver, wk, lastOk, budget>>

\* An awaited call of askQuestion rejects (embed, the membership query, the
\* nearest-neighbour statement, the text stream, the pages query); the
\* controller catches it.
AskAwaitFails ==
  /\ \/ ask.pc \in {"embed", "query", "stream", "sources"}
     \/ ask.pc = "scope" /\ ~SpaceIdGiven(ask.spaceId)
  /\ ask' = Caught(ask, "upstream failure")
  /\ UNCHANGED <<store, pages, driver, wk, lastOk, budget>>

\* res.raw.end()
AskEnd ==
  /\ ask.pc \in {"returned", "caught"}
  /\ ask' = [ask EXCEPT !.pc = "closed", !.ended = TRUE]
  /\ UNCHANGED <<store, pages, driver, wk, lastOk, budget>>

\* A page row is removed while the answer is being produced; buildSources
\* is the only reader of the pages table on this path.
RemovePage(p) ==
  /\ ask.pc = "sources"
  /\ pages[p].present
  /\ pages' = [pages EXCEPT ![p].present = FALSE]
  /\ UNCHANGED <<store, driver, wk, lastOk, budget, ask>>

(* ---------------------------------------------------------------------- *)
(* One request against an indexed store                                    *)
(* ---------------------------------------------------------------------- *)
Tokens == {"x", "y"}

Queries == {"a", "b"}

SpaceIdInputs ==
  {[given |-> FALSE, s |-> <<>>], [given |-> TRUE, s |-> <<>>],
   [given |-> TRUE, s |-> <<"sA">>], [given |-> TRUE, s |-> <<"sC">>],
   [given |-> TRUE, s |-> <<"sD">>], [given |-> TRUE, s |-> <<"sA", ",", "sC">>],
   [given |-> TRUE, s |-> <<"junk">>]}

\* The text of an indexed page with n chunks.
SeedUnits(p, n) ==
  CASE p = "p1" -> [k \in 1..n |-> "b"]
    [] p = "p2" -> MkUnits(n, 0)
    [] OTHER    -> [k \in 1..n |-> "a"]

RECURSIVE SeedStore(_, _)
\* The rows a regenerate of each page in turn leaves, for pages of cnt[p]
\* chunks.
SeedStore(order, cnt) ==
  IF order = <<>> THEN <<>>
  ELSE LET p    == Head(order)
           page == [id |-> p, spaceId |-> PageSpace(p),
                    workspaceId |-> PageWorkspace(p),
                    textContent |-> Text(SeedUnits(p, cnt[p]))]
       IN BatchRows(page, BatchChunks(SplitText(page.textContent), 0), 0)
            \o SeedStore(Tail(order), cnt)

AskInit ==
  /\ \E cnt \in [Pages -> {0, SeedChunks}] : store = SeedStore(PageOrder, cnt)
  /\ pages = [p \in Pages |->
                [textContent |-> InitialText(p), deletedAt |-> FALSE,
                 present |-> TRUE]]
  /\ driver \in Drivers
  /\ wk = [w \in Workers |-> IdleWorker]
  /\ lastOk = [p \in Pages |-> NoLastOk]
  /\ budget = [jobs |-> 0, failures |-> 0, edits |-> 0]
  /\ \E q \in Queries, ws \in Workspaces, u \in Users, sp \in SpaceIdInputs :
       ask = NewAsk(q, ws, u, sp)

AskNext ==
  \/ AskEmbedQuery
  \/ AskResolveScope
  \/ AskQueryStore
  \/ AskYieldNoContent
  \/ AskYieldNoSources
  \/ \E t \in Tokens : AskTextPart(t)
  \/ AskStreamEnds
  \/ AskYieldSources
  \/ AskYieldDone
  \/ AskAwaitFails
  \/ AskEnd
  \/ \E p \in Pages : RemovePage(p)

AskSpec == AskInit /\ [][AskNext]_vars

(* ====================================================================== *)
(* Properties of the query path (checked under AskSpec)                    *)
(* ====================================================================== *)
\* The positions of the events of one type in the response.
EventsOfType(out, ty) == {k \in 1..Len(out) : out[k].type = ty}

\* The request has run to the end of askQuestion or of ask.
AskFinished == ask.pc \in {"returned", "closed"}

\* The spaces the access resolver returns for the user of the request.
ResolvedSpaces == {UserSpaceIds(ask.userId)[k][1] :
                     k \in 1..Len(UserSpaceIds(ask.userId))}

\* C1: a run of askQuestion that retrieved at least one chunk and raised no
\* error has written the model's text increments as content events in the
\* order produced, then exactly one sources event, then the terminal marker
\* as last event; at no time does a content event follow a sources event.
C1_StreamOrder ==
  (ask.pc # "off" /\ ask.retrieved /\ Len(ask.chunks) >= 1 /\ ~ask.failed) =>
     /\ \A a \in EventsOfType(ask.out, "sources") :
           \A b \in EventsOfType(ask.out, "content") : b < a
     /\ AskFinished =>
          LET n == Len(ask.produced)
          IN /\ Len(ask.out) = n + 2
             /\ \A k \in 1..n : ask.out[k] = ContentEvent(ask.produced[k])
             /\ ask.out[n + 1].type = "sources"
             /\ ask.out[n + 2] = DoneMarker

\* C1 happens: an answer of two different increments was streamed to the end.
C1_Witness ==
  /\ ask.pc = "closed"
  /\ ~ask.failed
  /\ Len(ask.chunks) >= 1
  /\ Len(ask.produced) = 2
  /\ ask.produced[1] # ask.produced[2]

\* C2: without an explicit target space every chunk findSimilarChunks
\* returns is a stored row of the query's workspace whose space is one the
\* access resolver returned for the user.
C2_AccessScoped ==
  (ask.pc # "off" /\ ask.retrieved /\ ~SpaceIdGiven(ask.spaceId)) =>
     \A k \in 1..Len(ask.chunks) :
        /\ ask.chunks[k].spaceId \in ResolvedSpaces
        /\ \E i \in 1..Len(store) :
              /\ store[i].pageId = ask.chunks[k].pageId
              /\ store[i].chunkIndex = ask.chunks[k].chunkIndex
              /\ store[i].spaceId = ask.chunks[k].spaceId
              /\ store[i].workspaceId = ask.workspaceId

\* C2 happens: chunks were returned although a row of a space the user has
\* no access to, in the same workspace, is nearer than each of them.
C2_Witness ==
  /\ ask.pc # "off" /\ ask.retrieved /\ ~SpaceIdGiven(ask.spaceId)
  /\ Len(ask.chunks) >= 1
  /\ \E i \in 1..Len(store) :
        /\ store[i].workspaceId = ask.workspaceId
        /\ store[i].spaceId \notin ResolvedSpaces
        /\ \A k \in 1..Len(ask.chunks) :
              Distance(store[i].embedding, ask.queryVector)
                 < ask.chunks[k].distance

\* C3: a response that ended after a failure on the query path carries an
\* error event that is immediately followed by the terminal marker.
C3_ErrorThenSentinel ==
  (ask.pc # "off" /\ ask.ended /\ ask.failed) =>
     \E k \in EventsOfType(ask.out, "error") :
        k < Len(ask.out) /\ ask.out[k + 1] = DoneMarker

\* C4: a response holds at most one error event; the error event is the
\* last event written (no content, no sources after it), and after it the
\* handler does nothing but end the response.
C4_SingleError ==
  ask.pc # "off" =>
     LET errs == EventsOfType(ask.out, "error")
     IN /\ Cardinality(errs) <= 1
        /\ \A k \in errs : k = Len(ask.out)
        /\ errs # {} => ask.pc \in {"caught", "closed"}
        /\ ask.pc = "closed" => ask.ended
        /\ ask.failed => errs # {}

\* C4 happens: the failure came after a content event had been written.
C4_Witness ==
  /\ ask.pc = "closed"
  /\ ask.failed
  /\ Len(ask.out) >= 2
  /\ ask.out[1].type = "content"
  /\ ask.out[Len(ask.out)].type = "error"

\* C5: when retrieval yields no chunk the language model is never invoked
\* and the finished run has written exactly the 'no relevant content' event,
\* a sources event with an empty list and the terminal marker.
C5_NoResultPath ==
  (ask.pc # "off" /\ ask.retrieved /\ Len(ask.chunks) = 0) =>
     /\ ask.llmCalls = 0
     /\ ask.produced = <<>>
     /\ ~ask.failed
     /\ AskFinished =>
          ask.out = <<ContentEvent(NoContentText), SourcesEvent(<<>>),
                      DoneMarker>>

\* C5 happens: the store was asked and had no row for the request.
C5_Witness ==
  /\ ask.pc = "closed"
  /\ ask.retrieved
  /\ Len(ask.chunks) = 0
  /\ ask.storeQueries = 1

\* C6: with no explicit target space and an empty set from the access
\* resolver, findSimilarChunks returns the empty sequence and never issues
\* the nearest-neighbour statement.
C6_EmptyAccessShortCircuit ==
  (ask.pc # "off" /\ ~SpaceIdGiven(ask.spaceId) /\ ResolvedSpaces = {}) =>
     /\ ask.storeQueries = 0
     /\ ask.pc \notin {"query", "stream", "sources"}
     /\ ask.retrieved => ask.chunks = <<>>

\* C6 happens: the resolver was asked, returned nothing, and the store holds
\* rows of the request's workspace.
C6_Witness ==
  /\ ask.pc # "off" /\ ask.retrieved
  /\ ~SpaceIdGiven(ask.spaceId)
  /\ ResolvedSpaces = {}
  /\ ask.resolverCalls = 1
  /\ \E i \in 1..Len(store) : store[i].workspaceId = ask.workspaceId

(* ====================================================================== *)
(* Properties of regeneration (checked under BatchSpec and Spec)           *)
(* ====================================================================== *)
\* The elements of a sequence.
Range(f) == {f[k] : k \in DOMAIN f}

\* The text the job of worker w read for page p.
CapturedText(w, p) ==
  IF wk[w].mode = "page" THEN wk[w].page.textContent
  ELSE LET k == CHOOSE k \in 1..Len(wk[w].wsPages) : wk[w].wsPages[k].id = p
       IN wk[w].wsPages[k].textContent

\* What the rows of a page are made of: how many, which indices, which texts.
Structure(rows) ==
  [count   |-> Len(rows),
   indices |-> {rows[k].chunkIndex : k \in 1..Len(rows)},
   texts   |-> {ChunkText(rows[k]) : k \in 1..Len(rows)}]

\* The embedMany calls a job made for page p, in order.
EmbedCallsFor(w, p) ==
  LET calls == SelectSeq(wk[w].ops.embeds, LAMBDA c : c[1] = p)
  IN [k \in 1..Len(calls) |-> calls[k][2]]

\* C7: when a regenerate of a page has completed without error on a text of
\* N chunks (jobs run one at a time; earlier runs may have failed or seen
\* another text), the stored chunk indices of the page are exactly 0..N-1,
\* each once.  At every state, also while a run inserts and after a run that
\* failed or found no text, the indices a page has stored are 0..count-1,
\* each once.
C7_ContiguousIndices ==
  /\ \A w \in Workers : \A p \in Range(wk[w].ops.completed) :
        LET rows == RowsOfPage(store, p)
            N    == Len(SplitText(CapturedText(w, p)))
        IN /\ Len(rows) = N
           /\ {rows[k].chunkIndex : k \in 1..N} = 0..(N - 1)
  /\ \A p \in Pages :
        LET rows == RowsOfPage(store, p)
        IN {rows[k].chunkIndex : k \in 1..Len(rows)} = 0..(Len(rows) - 1)

\* C7 happens: the second job on the page completed on a text of more than
\* two batches after an earlier run had failed.
C7_Witness ==
  \E w \in Workers :
     /\ wk[w].pc = "done" /\ wk[w].outcome = "ok"
     /\ wk[w].ops.completed = <<EditedPage>>
     /\ Len(SplitText(wk[w].page.textContent)) > 2 * EMBEDDING_BATCH_SIZE
     /\ budget.jobs = 2
     /\ budget.failures = 1

\* C8: a regenerate that completes right after a complete regenerate of the
\* same page on the same text leaves the chunk count, the chunk indices and
\* the set of chunk texts of the page as the first one left them.
C8_Idempotent ==
  \A w \in Workers :
     \A p \in Range(wk[w].ops.completed) \cap wk[w].prevOk :
        Structure(RowsOfPage(store, p)) = Structure(wk[w].prevRows[p])

\* C8 happens: the second of two complete runs on a text of several batches.
C8_Witness ==
  \E w \in Workers :
     /\ wk[w].pc = "done" /\ wk[w].outcome = "ok"
     /\ EditedPage \in wk[w].prevOk
     /\ EditedPage \in Range(wk[w].ops.completed)
     /\ Len(wk[w].prevRows[EditedPage]) > EMBEDDING_BATCH_SIZE

\* The number of embedding calls for n chunks: ceil(n / 100).
ExpectedCalls(n) == (n + EMBEDDING_BATCH_SIZE - 1) \div EMBEDDING_BATCH_SIZE

\* C9: a regenerate that completed on a text of N > 0 chunks made exactly
\* ceil(N/100) embedding calls, each but the last with 100 chunks and the
\* last with the remaining ones, in chunk order, and issued N inserts that
\* left N rows.
C9_BatchBoundaries ==
  \A w \in Workers : \A p \in Range(wk[w].ops.completed) :
     LET chunks == SplitText(CapturedText(w, p))
         N      == Len(chunks)
         calls  == EmbedCallsFor(w, p)
         c      == ExpectedCalls(N)
     IN N > 0 =>
          /\ Len(calls) = c
          /\ \A k \in 1..(c - 1) : Len(calls[k]) = EMBEDDING_BATCH_SIZE
          /\ Len(calls[c]) = N - EMBEDDING_BATCH_SIZE * (c - 1)
          /\ \A k \in 1..c : \A m \in 1..Len(calls[k]) :
                calls[k][m] = chunks[EMBEDDING_BATCH_SIZE * (k - 1) + m]
          /\ wk[w].ops.inserts[p] = N
          /\ Len(RowsOfPage(store, p)) = N

\* C9 happens: three calls, the last one partial.
C9_Witness ==
  \E w \in Workers :
     /\ wk[w].pc = "done" /\ wk[w].outcome = "ok"
     /\ wk[w].ops.completed = <<EditedPage>>
     /\ Len(EmbedCallsFor(w, EditedPage)) = 3
     /\ Len(EmbedCallsFor(w, EditedPage)[3]) < EMBEDDING_BATCH_SIZE

\* C10: a job that looks at a page whose text is null, empty or whitespace
\* only (as the page of a page job, or as one page of a workspace run)
\* issues no delete, no embedding call and no insert for it and leaves the
\* page's rows as they were.
C10_BlankPageUntouched ==
  \A w \in Workers : \A p \in Range(wk[w].ops.visited) :
     HasNoText(CapturedText(w, p)) =>
        /\ p \notin Range(wk[w].ops.deletes)
        /\ EmbedCallsFor(w, p) = <<>>
        /\ wk[w].ops.inserts[p] = 0
        /\ RowsOfPage(store, p) = wk[w].blankRows[p]

\* C10 happens: a workspace run has passed a page that lost its text after
\* it was indexed, and has rebuilt another page since.
C10_Witness ==
  \E w \in Workers :
     /\ wk[w].pc = "done" /\ wk[w].mode = "ws"
     /\ EditedPage \in Range(wk[w].ops.visited)
     /\ HasNoText(CapturedText(w, EditedPage))
     /\ RowsOfPage(store, EditedPage) # <<>>
     /\ wk[w].ops.completed # <<>>

\* C10 for a single page job on such a page.
C10_WitnessPageJob ==
  \E w \in Workers :
     /\ wk[w].pc = "done" /\ wk[w].mode = "page"
     /\ wk[w].ops.visited = <<EditedPage>>
     /\ HasNoText(CapturedText(w, EditedPage))
     /\ RowsOfPage(store, EditedPage) # <<>>

(* ====================================================================== *)
(* Error handling of regeneration (checked under Spec)                     *)
(* ====================================================================== *)
\* The pages whose regenerate threw in the job of worker w.
FailedPages(w) == {f[1] : f \in Range(wk[w].ops.failed)}

\* The ids of the pages of a workspace a run has to look at, in order.
RunPages(ws) ==
  LET ps == VisiblePagesOf(PageOrder, ws) IN [k \in 1..Len(ps) |-> ps[k].id]

\* C11: a workspace-wide run whose page list was loaded never ends with an
\* error; when it ends it has looked at every non-deleted page of the
\* workspace in order, and every such page with text whose regenerate did
\* not throw has been rebuilt in full.
C11_RunSurvivesPageError ==
  \A w \in Workers :
     (wk[w].mode = "ws" /\ wk[w].idx >= 1) =>
        /\ wk[w].outcome # "error"
        /\ wk[w].pc = "done" =>
             /\ wk[w].ops.visited = RunPages(wk[w].arg)
             /\ \A p \in Range(RunPages(wk[w].arg)) :
                   (~HasNoText(pages[p].textContent) /\ p \notin FailedPages(w))
                      => /\ p \in Range(wk[w].ops.completed)
                         /\ Len(RowsOfPage(store, p))
                              = Len(SplitText(pages[p].textContent))

\* C11 happens: the regenerate of the first page threw under a supported
\* driver and a later page of the run was rebuilt.
C11_Witness ==
  \E w \in Workers :
     /\ wk[w].mode = "ws" /\ wk[w].pc = "done" /\ wk[w].outcome = "ok"
     /\ EmbeddingModelResolves(driver)
     /\ FailedPages(w) = {"p1"}
     /\ "p2" \in Range(wk[w].ops.completed)
     /\ RowsOfPage(store, "p2") # <<>>

\* C12: when a regenerate threw at a step after its delete (resolution of
\* the provider, an embedding call, an insert), the store holds no row of
\* that page.
C12_NoPartialRows ==
  \A w \in Workers : \A f \in Range(wk[w].ops.failed) :
     f[2] \in {"resolve", "embed", "insert"} => RowsOfPage(store, f[1]) = <<>>

(* ---------------------------------------------------------------------- *)
(* Interleaved jobs (checked under ConcSpec)                               *)
(* ---------------------------------------------------------------------- *)
\* The workers whose rows of page p are in the store.
WritersOf(p) ==
  {RowsOfPage(store, p)[k].by : k \in 1..Len(RowsOfPage(store, p))}

\* C13: at every reachable state, also when two regenerate jobs for the same
\* document interleave, the store holds at most one set of chunks for the
\* document: no chunk index occurs twice among its rows, and rows written by
\* two different runs are never stored together.
C13_OneLiveSet ==
  \A p \in Pages :
    LET rs == RowsOfPage(store, p)
    IN /\ \A a, b \in 1..Len(rs) :
            rs[a].chunkIndex = rs[b].chunkIndex => a = b
       /\ Cardinality(WritersOf(p)) <= 1

\* C14: when the configured driver is not a supported variant, an operation
\* that resolves the provider surfaces the configuration error to its caller
\* at the first resolution (the job ends failed) and does not resolve again
\* within that operation.
C14_FatalAtFirstResolution ==
  ~EmbeddingModelResolves(driver) =>
    \A w \in Workers :
      /\ wk[w].ops.resolves <= 1
      /\ wk[w].ops.resolves >= 1 =>
           wk[w].pc = "done" /\ wk[w].outcome = "error"

(* ---------------------------------------------------------------------- *)
(* Citations (checked under AskSpec)                                       *)
(* ---------------------------------------------------------------------- *)
\* The request ran to its end without error after retrieving chunks.
AnsweredWithChunks ==
  AskFinished /\ ~ask.failed /\ Len(ask.chunks) >= 1

\* The citations of the sources event of the response.
Cited ==
  LET ks == EventsOfType(ask.out, "sources")
  IN IF ks = {} THEN <<>> ELSE ask.out[SetMin(ks)].sources

\* A citation is the citation of a retrieved chunk.
Cites(src, chunk) ==
  /\ src.pageId = chunk.pageId
  /\ src.chunkIndex = chunk.chunkIndex
  /\ src.distance = chunk.distance

\* The positions in the prompt of the chunks whose page exists.
CitablePositions ==
  {k \in 1..Len(ask.prompt) : pages[ask.chunks[k].pageId].present}

\* C15 as stated: in every successful answer the sources event carries one
\* citation for every chunk rendered into the grounding prompt, in the same
\* order, also when the page of a retrieved chunk no longer exists.
C15_CitationPerPromptChunk ==
  AnsweredWithChunks =>
    /\ Len(Cited) = Len(ask.prompt)
    /\ \A k \in 1..Len(Cited) : Cites(Cited[k], ask.chunks[k])

\* C15 amended: in every successful answer the sources event carries one
\* citation for every chunk rendered into the grounding prompt whose owning
\* page exists when the sources are built, in the order of the prompt; the
\* chunks of pages that no longer exist have no citation.
C15_CitationPerCitableChunk ==
  AnsweredWithChunks =>
    /\ Len(Cited) = Cardinality(CitablePositions)
    /\ \A k \in CitablePositions :
         Cites(Cited[Cardinality({j \in CitablePositions : j <= k})],
               ask.chunks[k])

\* C15 happens: the prompt held chunks of two pages, one of which was removed
\* before the sources were built; the other page's chunks are cited.
C15_Witness ==
  /\ AnsweredWithChunks
  /\ ask.pc = "closed"
  /\ Len(Cited) >= 2
  /\ Len(Cited) < Len(ask.prompt)
  /\ \E k \in 1..Len(ask.prompt) :
       /\ k \notin CitablePositions
       /\ \E j \in CitablePositions : j > k

(* ---------------------------------------------------------------------- *)
(* Pages that lost their text, unknown jobs (checked under Spec)           *)
(* ---------------------------------------------------------------------- *)
\* C16: after a page's text went from non-empty, with chunks stored, to
\* empty, a regenerate job that has looked at the page and ended leaves no
\* chunk of the page in the store.
C16_StaleChunksCleared ==
  \A w \in Workers : \A p \in Range(wk[w].ops.visited) :
     (wk[w].pc = "done" /\ wk[w].outcome = "ok"
        /\ HasNoText(CapturedText(w, p)))
       => RowsOfPage(store, p) = <<>>

\* The names process() has a case for.
KnownJobNames ==
  {"WORKSPACE_CREATE_EMBEDDINGS", "WORKSPACE_DELETE_EMBEDDINGS",
   "GENERATE_PAGE_EMBEDDINGS", "DELETE_PAGE_EMBEDDINGS"}

\* C17: a job whose name is none of the four known kinds is dropped: the step
\* that takes it ends it without error, it has issued no delete, no embedding
\* call, no resolution and no insert, the store is as it was before the job,
\* and nothing but the settling of the job follows.
C17_UnknownJobDropped ==
  [][\A w \in Workers :
       /\ (wk[w].pc = "idle" /\ wk'[w].pc # "idle"
             /\ wk'[w].jobName \notin KnownJobNames)
            => /\ wk'[w].pc = "done"
               /\ wk'[w].outcome = "ok"
               /\ wk'[w].ops = NoOps
               /\ store' = store
       /\ (wk[w].pc # "idle" /\ wk[w].jobName \notin KnownJobNames)
            => /\ store' = store
               /\ wk'[w] \in {wk[w], IdleWorker}]_vars

\* C17 happens: an unknown job has been taken and has ended while the store
\* held rows.
C17_Witness ==
  \E w \in Workers :
     /\ wk[w].jobName = "UNKNOWN"
     /\ wk[w].pc = "done"
     /\ wk[w].outcome = "ok"
     /\ store # <<>>

(* ---------------------------------------------------------------------- *)
(* Explicit target space (checked under AskSpec)                           *)
(* ---------------------------------------------------------------------- *)
\* The stored rows of workspace ws that lie in space sp.
RowsOfSpace(ws, sp) ==
  {k \in 1..Len(store) : store[k].workspaceId = ws /\ store[k].spaceId = sp}

\* The request names a target space: a non-empty spaceId string.
ExplicitSpace == ask.spaceId.given /\ ask.spaceId.s # <<>>

C19_HealsAfterInterruption ==
  \A w \in Workers :
     \A p \in Range(wk[w].ops.completed) \cap wk[w].prevInterrupted :
        LET rows   == RowsOfPage(store, p)
            chunks == SplitText(pages[p].textContent)
        IN /\ Len(rows) = Len(chunks)
           /\ \A k \in 1..Len(rows) :
                 /\ rows[k].chunkIndex = k - 1
                 /\ ChunkText(rows[k]) = chunks[k]
                 /\ rows[k].by = w

\* C19 happens: the run before was interrupted in a later batch and left
\* rows behind, and this run rebuilt the page of more than one batch.
C19_Witness ==
  \E w \in Workers :
     /\ wk[w].pc = "done" /\ wk[w].outcome = "ok"
     /\ EditedPage \in Range(wk[w].ops.completed)
     /\ EditedPage \in wk[w].prevInterrupted
     /\ EditedPage \in wk[w].prevLeft
     /\ Len(RowsOfPage(store, EditedPage)) > EMBEDDING_BATCH_SIZE

(* ---------------------------------------------------------------------- *)
(* Delete job against a running regenerate (checked under ConcSpec)        *)
(* ---------------------------------------------------------------------- *)
\* C20: once a page.deleteEmbeddings job for a page has completed, no job
\* has been taken since its delete ran, and every job that was in flight has
\* finished, the store holds no chunk of that page.
C20_DeleteLeavesNothing ==
  \A w \in Workers :
     (/\ wk[w].jobName = "DELETE_PAGE_EMBEDDINGS"
      /\ wk[w].pc = "done" /\ wk[w].outcome = "ok"
      /\ wk[w].delAt = budget.jobs
      /\ \A o \in Workers \ {w} : wk[o].pc \in {"idle", "done"})
       => RowsOfPage(store, wk[w].arg) = <<>>

(* ---------------------------------------------------------------------- *)
(* Unsupported driver (checked under ReconfSpec)                           *)
(* ---------------------------------------------------------------------- *)
\* The regenerate of page p in the job of worker w threw at the resolution
\* of the embedding model.
ThrewAtResolution(w, p) == <<p, "resolve">> \in Range(wk[w].ops.failed)

\* C21: the rows of a page are deleted before the embedding provider is
\* resolved.  A regenerate that throws at the resolution has issued its
\* delete, no embedding call and no insert, and the page has no rows.  With
\* an unsupported driver, a job that has ended threw at the resolution for
\* every page with non-empty text whose delete it issued; a workspace run
\* ends normally having looked at every non-deleted page of the workspace.
C21_UnsupportedDriverClears ==
  \A w \in Workers :
     /\ \A p \in Pages : ThrewAtResolution(w, p) =>
           /\ p \in Range(wk[w].ops.deletes)
           /\ EmbedCallsFor(w, p) = <<>>
           /\ wk[w].ops.inserts[p] = 0
           /\ RowsOfPage(store, p) = <<>>
     /\ (~EmbeddingModelResolves(driver) /\ wk[w].pc = "done") =>
           /\ \A p \in Range(wk[w].ops.visited) :
                 (~HasNoText(CapturedText(w, p))
                    /\ p \in Range(wk[w].ops.deletes))
                   => ThrewAtResolution(w, p)
           /\ wk[w].ops.completed = <<>>
           /\ (wk[w].mode = "ws" /\ wk[w].outcome = "ok") =>
                 wk[w].ops.visited = RunPages(wk[w].arg)
           /\ (wk[w].mode = "page" /\ wk[w].ops.resolves > 0) =>
                 wk[w].outcome = "error"

\* C21 happens: two pages of a workspace were indexed under a supported
\* driver; after the driver was changed to an unsupported one a workspace
\* run ended normally and both pages have lost their rows.
C21_Witness ==
  \E w \in Workers :
     /\ ~EmbeddingModelResolves(driver)
     /\ wk[w].mode = "ws" /\ wk[w].pc = "done" /\ wk[w].outcome = "ok"
     /\ {"p1", "p2"} \subseteq wk[w].prevOk
     /\ ThrewAtResolution(w, "p1") /\ ThrewAtResolution(w, "p2")
     /\ RowsOfPage(store, "p1") = <<>> /\ RowsOfPage(store, "p2") = <<>>

(* ---------------------------------------------------------------------- *)
(* Workspace isolation of retrieval (checked under AskSpec)                *)
(* ---------------------------------------------------------------------- *)
\* The stored rows a returned chunk can come from.
RowsBehind(chunk) ==
  {k \in 1..Len(store) : /\ store[k].pageId = chunk.pageId
                         /\ store[k].chunkIndex = chunk.chunkIndex}

\* C22: for every query, with or without an explicit target space, every
\* chunk findSimilarChunks returns is a row stored under the caller's
\* workspace, also when the explicit space or a space the resolver returned
\* for the user belongs to another workspace.
C22_WorkspaceIsolation ==
  (ask.pc # "off" /\ ask.retrieved) =>
     \A k \in 1..Len(ask.chunks) :
        /\ RowsBehind(ask.chunks[k]) # {}
        /\ \A m \in RowsBehind(ask.chunks[k]) :
              store[m].workspaceId = ask.workspaceId
        /\ PageWorkspace(ask.chunks[k].pageId) = ask.workspaceId

\* C22 happens: user u4, a member of space sB of w1 and of space sD of w2,
\* asked in w1 without a target space while the store held rows of sD, and
\* was answered from chunks.
C22_Witness ==
  /\ ask.pc = "closed"
  /\ ~ask.failed
  /\ ask.userId = "u4"
  /\ ask.workspaceId = "w1"
  /\ ~ask.spaceId.given
  /\ ask.resolverCalls = 1
  /\ RowsOfPage(store, "p3") # <<>>
  /\ Len(ask.chunks) >= 1

\* C22 for an explicit space of another workspace: nothing is returned.
C22_WitnessExplicit ==
  /\ ask.pc = "closed"
  /\ ask.workspaceId = "w1"
  /\ ask.spaceId = [given |-> TRUE, s |-> <<"sD">>]
  /\ ask.storeQueries = 1
  /\ RowsOfPage(store, "p3") # <<>>
  /\ ask.chunks = <<>>

====
